---- MODULE Spec2Model ----
(***************************************************************************)
(* Model of tools/elog-gen.py: the loader get_elog_data, the validator     *)
(* check_error_inheritance, the orderer order_inherited_errors and the     *)
(* driver gen_elog_hpp.                                                    *)
(*                                                                         *)
(* Python strings that the code takes apart or builds (namespaces, error   *)
(* names, metadata declaration strings) are sequences of one-character     *)
(* strings.  Strings that are only compared or looked up (levels, type     *)
(* tags) are TLA+ strings.  Python dicts are functions; a key is present   *)
(* iff it is in the DOMAIN.  error_msg (lines 204-205) is not modelled.    *)
(***************************************************************************)
EXTENDS Integers, Sequences, FiniteSets, TLC

VARIABLES
    pc,               \* position in gen_elog_hpp / get_elog_data / order_inherited_errors
    errors,           \* gen_elog_hpp: errors (line 117)
    error_lvl,        \* gen_elog_hpp: error_lvl (line 119)
    meta,             \* gen_elog_hpp: meta (line 120)
    meta_data,        \* gen_elog_hpp: meta_data (line 121)
    parents,          \* gen_elog_hpp: parents (line 122)
    metadata_process, \* gen_elog_hpp: metadata_process (line 123)
    i_namespace,      \* get_elog_data: namespace of the document being loaded
    mfile,            \* the companion metadata document of the document being loaded
    template_path,    \* gen_elog_hpp: "unbound" until line 137 assigns it, then "bound"
    i_errors,         \* order_inherited_errors: parameter i_errors
    ordered,          \* order_inherited_errors: local list errors (line 23)
    idx,              \* order_inherited_errors: position of the for loop of line 35
    validated,        \* outcome of check_error_inheritance: "pending", "ok", "failed"
    reported,         \* the child/parent pair printed at lines 53-54
    abortReason,      \* why the run ended fatally
    ordering,         \* "none", "running", "returned": progress of the call at line 158
    rendered,         \* TRUE once lines 164-173 wrote the output file
    procDeclared      \* history: <<fullname, str_short>> of fields loaded with process = True

vars == <<pc, errors, error_lvl, meta, meta_data, parents, metadata_process,
          i_namespace, mfile, template_path, i_errors, ordered, idx, validated,
          reported, abortReason, ordering, rendered, procDeclared>>

modelVars == <<errors, error_lvl, meta, meta_data, parents, metadata_process>>
orderVars == <<i_errors, ordered, idx, ordering>>

-----------------------------------------------------------------------------
(* Bounds *)

MaxErrors == 2
MaxBatch == 4

-----------------------------------------------------------------------------
(* Python values *)

None == <<"None">>          \* Python None; no string is equal to it
Empty == <<>>               \* the empty string ''
EmptyDict == [x \in {} |-> x]

Truthy(v) == v # None /\ Len(v) > 0

Put(d, k, v) == [x \in (DOMAIN d) \cup {k} |-> IF x = k THEN v ELSE d[x]]

Get(d, k, default) == IF k \in DOMAIN d THEN d[k] ELSE default

Range(s) == {s[i] : i \in 1..Len(s)}

\* str.replace(old, new) for one-character old and new
Replace(s, old, new) == [i \in 1..Len(s) |-> IF s[i] = old THEN new ELSE s[i]]

\* str.split(sep)[0]: the part before the first sep, the whole string without one
SplitFirst(s, sep) ==
    LET hits == {i \in 1..Len(s) : s[i] = sep}
    IN IF hits = {} THEN s
       ELSE SubSeq(s, 1, (CHOOSE i \in hits : \A j \in hits : i <= j) - 1)

-----------------------------------------------------------------------------
(* Inputs *)

NameSpaces == { <<"n", "/", "s">> }
LocalNames == { <<"A">>, <<"B">> }

FullName(namespace, name) == Replace(namespace, "/", ".") \o <<".">> \o name

FullNames == {FullName(n, e) : n \in NameSpaces, e \in LocalNames}

Undefined == <<"Z">>        \* a parent name no document defines

\* records of an error yaml document: with a name, or without one
ErrorRecords == {[name |-> n] : n \in LocalNames} \cup {[description |-> <<"d">>]}

\* entries of a meta list: "K=d" of a known type without a process flag and
\* with either value of it, "K=d" of an unknown type, and "J", a declaration
\* string without '=', flagged
MetaFields ==
    {[str |-> <<"K", "=", "d">>, type |-> t] : t \in {"int32", "float"}}
    \cup {[str |-> <<"K", "=", "d">>, type |-> "int32", process |-> p] :
             p \in BOOLEAN}
    \cup {[str |-> <<"J">>, type |-> "string", process |-> TRUE]}

\* the lists of a 'meta' key: empty, one entry, or "J" and then an entry
\* without a process flag
MetaLists ==
    {<<>>} \cup {<<f>> : f \in MetaFields}
    \cup {<<f, g>> : f \in {h \in MetaFields : h.str = <<"J">>},
                     g \in {h \in MetaFields : "process" \notin DOMAIN h}}

\* an 'inherits' key: the empty list, or one name: a loaded error, a name no
\* document defines, or the empty string
InheritsLists == {<<>>} \cup {<<p>> : p \in FullNames \cup {Undefined, Empty}}

\* records of a metadata yaml document for the error called name
MetaEntries(name) ==
    LET base == {[name |-> name], [name |-> name, level |-> "INFO"]}
        withInh == base \cup
            {Put(b, "inherits", i) : b \in base, i \in InheritsLists}
    IN withInh \cup {Put(b, "meta", m) : b \in withInh, m \in MetaLists}

-----------------------------------------------------------------------------
(* get_cpp_type *)

typeMap ==
    [t \in {"int16", "int32", "int64", "uint16", "uint32", "uint64",
            "double", "string"} |->
        CASE t = "int16" -> "int16_t"
          [] t = "int32" -> "int32_t"
          [] t = "int64" -> "int64_t"
          [] t = "uint16" -> "uint16_t"
          [] t = "uint32" -> "uint32_t"
          [] t = "uint64" -> "uint64_t"
          [] t = "double" -> "double"
          [] t = "string" -> "const char*"]

\* typeMap[i_type] raises KeyError for a tag that is not a key
KnownType(i_type) == i_type \in DOMAIN typeMap

get_cpp_type(i_type) == typeMap[i_type]

-----------------------------------------------------------------------------
(* get_elog_data: one iteration of the loop over the error document *)

\* line 246 without its second test: any process key adds the entry
RECURSIVE LoadFields_AnyFlag(_, _, _)
LoadFields_AnyFlag(fields, fullname, st) ==
    IF fields = <<>> \/ ~st.ok THEN st
    ELSE LET i == Head(fields)
             str_short == SplitFirst(i.str, "=")
             partial == [str |-> i.str, str_short |-> str_short]
         IN IF ~KnownType(i.type)
            THEN [st EXCEPT !.tmp = Append(@, str_short),
                            !.md = Put(@, str_short, partial),
                            !.ok = FALSE]
            ELSE LoadFields_AnyFlag(Tail(fields), fullname,
                   [st EXCEPT
                      !.tmp = Append(@, str_short),
                      !.md = Put(@, str_short,
                                 Put(partial, "type", get_cpp_type(i.type))),
                      !.mp = IF "process" \in DOMAIN i
                             THEN Put(@, str_short, fullname \o <<".">> \o str_short)
                             ELSE @,
                      !.pd = IF "process" \in DOMAIN i /\ i.process = TRUE
                             THEN @ \cup {<<fullname, str_short>>}
                             ELSE @])

\* lines 239-247 over the list match['meta'], from the state st =
\* [tmp, md, mp, pd, ok]; the loop stops at the KeyError of get_cpp_type.
\* The statements of lines 240-244 run before the call at line 245.
RECURSIVE LoadFields(_, _, _)
LoadFields(fields, fullname, st) ==
    IF fields = <<>> \/ ~st.ok THEN st
    ELSE LET i == Head(fields)
             str_short == SplitFirst(i.str, "=")
             partial == [str |-> i.str, str_short |-> str_short]
         IN IF ~KnownType(i.type)
            THEN [st EXCEPT !.tmp = Append(@, str_short),
                            !.md = Put(@, str_short, partial),
                            !.ok = FALSE]
            ELSE LoadFields(Tail(fields), fullname,
                   [st EXCEPT
                      !.tmp = Append(@, str_short),
                      !.md = Put(@, str_short,
                                 Put(partial, "type", get_cpp_type(i.type))),
                      !.mp = IF "process" \in DOMAIN i /\ i.process = TRUE
                             THEN Put(@, str_short, fullname \o <<".">> \o str_short)
                             ELSE @,
                      !.pd = IF "process" \in DOMAIN i /\ i.process = TRUE
                             THEN @ \cup {<<fullname, str_short>>}
                             ELSE @])

\* the first entry of the metadata document whose name is the error's name
\* (lines 217-221): <<entry>>, or <<>> for match = None.  The document is
\* read through this search only; mfile.search keeps the answer the document
\* gave for each name searched so far.
Matches(name) ==
    IF name \in DOMAIN mfile.search THEN {mfile.search[name]}
    ELSE {<<e>> : e \in MetaEntries(name)} \cup {<<>>}

\* no document is being loaded
NoDoc == [isfile |-> FALSE, search |-> EmptyDict]

Abort(reason) ==
    /\ pc' = "abort"
    /\ abortReason' = reason

\* lines 228-248, the metadata entry match found for fullname
ApplyMatch(fullname, match, lvl0, par0) ==
    LET lvl1 == Put(lvl0, fullname, Get(match, "level", "ERR"))
    IN IF "inherits" \in DOMAIN match /\ match.inherits = <<>>
       THEN \* match['inherits'][0] raises IndexError
            /\ error_lvl' = lvl1
            /\ parents' = par0
            /\ UNCHANGED <<meta, meta_data, metadata_process, procDeclared>>
            /\ Abort("index_error")
       ELSE LET par1 == IF "inherits" \in DOMAIN match
                        THEN Put(par0, fullname, match.inherits[1])
                        ELSE par0
                st == LoadFields(Get(match, "meta", <<>>), fullname,
                                 [tmp |-> <<>>, md |-> meta_data,
                                  mp |-> metadata_process, pd |-> procDeclared,
                                  ok |-> TRUE])
            IN /\ error_lvl' = lvl1
               /\ parents' = par1
               /\ meta_data' = st.md
               /\ metadata_process' = st.mp
               /\ procDeclared' = st.pd
               /\ IF st.ok
                  THEN /\ meta' = Put(meta, fullname, st.tmp)
                       /\ UNCHANGED <<pc, abortReason>>
                  ELSE /\ UNCHANGED meta
                       /\ Abort("unknown_type")

\* gen_elog_hpp lines 127-142 and get_elog_data lines 191-193: the next
\* document of error_yamls is taken and opened.  The template is the same
\* file for every document: once line 138 found it, it is found again.
StartDoc ==
    /\ pc = "load"
    /\ Len(errors) < MaxErrors
    /\ UNCHANGED <<modelVars, orderVars, validated, reported, rendered, procDeclared>>
    /\ \E yamlIsFile, metaIsFile \in BOOLEAN :
       \E templateIsFile \in IF template_path = "bound" THEN {TRUE} ELSE BOOLEAN :
          IF ~yamlIsFile
          THEN Abort("no_yaml") /\ UNCHANGED <<mfile, i_namespace, template_path>>
          ELSE IF ~templateIsFile
          THEN Abort("no_template") /\ UNCHANGED <<mfile, i_namespace, template_path>>
          ELSE /\ pc' = "doc"
               /\ template_path' = "bound"
               /\ i_namespace' \in NameSpaces
               /\ mfile' = [isfile |-> metaIsFile, search |-> EmptyDict]
               /\ UNCHANGED abortReason

\* get_elog_data lines 196-248: one error record of the document
LoadError ==
    /\ pc = "doc"
    /\ Len(errors) < MaxErrors
    /\ UNCHANGED <<i_namespace, template_path, orderVars, validated, reported,
                   rendered>>
    /\ \E error \in ErrorRecords :
          IF "name" \notin DOMAIN error
          THEN /\ Abort("missing_name")
               /\ UNCHANGED <<modelVars, mfile, procDeclared>>
          ELSE LET fullname == FullName(i_namespace, error.name)
                   lvl0 == Put(error_lvl, fullname, "ERR")
                   par0 == Put(parents, fullname, None)
               IN /\ errors' = Append(errors, fullname)
                  /\ IF ~mfile.isfile
                     THEN /\ error_lvl' = lvl0
                          /\ parents' = par0
                          /\ UNCHANGED <<meta, meta_data, metadata_process,
                                         procDeclared, mfile, pc, abortReason>>
                     ELSE \E match \in Matches(error.name) :
                          /\ mfile' = [mfile EXCEPT !.search = Put(@, error.name, match)]
                          /\ IF match = <<>>
                             THEN /\ error_lvl' = lvl0
                                  /\ parents' = par0
                                  /\ UNCHANGED <<meta, meta_data, metadata_process,
                                                 procDeclared, pc, abortReason>>
                             ELSE ApplyMatch(fullname, match[1], lvl0, par0)

\* get_elog_data returns: the loop of line 196 is over
EndDoc ==
    /\ pc = "doc"
    /\ pc' = "load"
    /\ mfile' = NoDoc
    /\ i_namespace' = Empty
    /\ UNCHANGED <<modelVars, template_path, orderVars, validated, reported,
                   abortReason, rendered, procDeclared>>

\* the loop of line 127 is over
EndLoad ==
    /\ pc = "load"
    /\ pc' = "check"
    /\ UNCHANGED <<modelVars, i_namespace, mfile, template_path, orderVars, validated,
                   reported, abortReason, rendered, procDeclared>>

-----------------------------------------------------------------------------
(* check_error_inheritance *)

\* line 52: the error at position i inherits a name that is not in i_errors
Violates(errs, pars, i) ==
    Truthy(pars[errs[i]]) /\ pars[errs[i]] \notin Range(errs)

\* lines 50-56, the loop from position i on: <<TRUE>> for True, and
\* <<FALSE, error, parent>> with the pair printed for False
RECURSIVE CheckFrom(_, _, _)
CheckFrom(errs, pars, i) ==
    IF i > Len(errs) THEN <<TRUE>>
    ELSE IF Violates(errs, pars, i) THEN <<FALSE, errs[i], pars[errs[i]]>>
    ELSE CheckFrom(errs, pars, i + 1)

\* the scan leaves out the first error
check_error_inheritance_SkipFirst(errs, pars) == CheckFrom(errs, pars, 2)

check_error_inheritance(errs, pars) == CheckFrom(errs, pars, 1)

\* the exit(1) of line 156 left out: the run goes on to line 158
CheckInheritance_NoExit ==
    /\ pc = "check"
    /\ LET r == check_error_inheritance(errors, parents)
       IN IF r[1]
          THEN /\ validated' = "ok"
               /\ pc' = "order"
               /\ UNCHANGED <<reported, abortReason>>
          ELSE /\ validated' = "failed"
               /\ reported' = <<r[2], r[3]>>
               /\ pc' = "order"
               /\ UNCHANGED abortReason
    /\ UNCHANGED <<modelVars, i_namespace, mfile, template_path, orderVars, rendered,
                   procDeclared>>

\* gen_elog_hpp lines 154-156
CheckInheritance ==
    /\ pc = "check"
    /\ LET r == check_error_inheritance(errors, parents)
       IN IF r[1]
          THEN /\ validated' = "ok"
               /\ pc' = "order"
               /\ UNCHANGED <<reported, abortReason>>
          ELSE /\ validated' = "failed"
               /\ reported' = <<r[2], r[3]>>
               /\ Abort("dangling_parent")
    /\ UNCHANGED <<modelVars, i_namespace, mfile, template_path, orderVars, rendered,
                   procDeclared>>

-----------------------------------------------------------------------------
(* order_inherited_errors *)

\* lines 24-28
HasInheritance(errs, pars) == \E i \in 1..Len(errs) : pars[errs[i]] # None

\* the test of line 36 left out
AlreadyOrdered_Never(error, ord) == FALSE

\* line 36
AlreadyOrdered(error, ord) == error \in Range(ord)

\* the test of line 39 left out
CanAppend_Always(error, ord, pars) == TRUE

\* line 39
CanAppend(error, ord, pars) ==
    (~Truthy(pars[error])) \/ (pars[error] \in Range(ord))

\* the else branch of line 45 left out: the empty list of line 23 is returned
NoInheritanceOrder_Empty(errs) == <<>>

\* line 45: without inheritance the input list is the result
NoInheritanceOrder(errs) == errs

\* the scan starts again from the first position after every append
NextIdx_Restart(i, appended) == IF appended THEN 1 ELSE i + 1

\* line 35: the for loop goes on to the next position, appended or not
NextIdx(i, appended) == i + 1

\* gen_elog_hpp line 158 calls; lines 23-30 and 43-47
OrderBegin ==
    /\ pc = "order"
    /\ i_errors' = errors
    /\ IF HasInheritance(errors, parents)
       THEN /\ ordered' = <<>>
            /\ pc' = "while"
            /\ ordering' = "running"
            /\ UNCHANGED errors
       ELSE /\ ordered' = NoInheritanceOrder(errors)
            /\ errors' = ordered'
            /\ pc' = "render"
            /\ ordering' = "returned"
    /\ idx' = 0
    /\ UNCHANGED <<error_lvl, meta, meta_data, parents, metadata_process,
                   i_namespace, mfile, template_path, validated, reported,
                   abortReason, rendered, procDeclared>>

\* line 34: the test of the while loop; line 47 and the assignment of line 158
\* when it fails
OrderWhile ==
    /\ pc = "while"
    /\ IF Len(ordered) < Len(i_errors)
       THEN /\ pc' = "for"
            /\ idx' = 1
            /\ UNCHANGED <<errors, ordering>>
       ELSE /\ pc' = "render"
            /\ errors' = ordered
            /\ ordering' = "returned"
            /\ idx' = 0
    /\ UNCHANGED <<error_lvl, meta, meta_data, parents, metadata_process,
                   i_namespace, mfile, template_path, i_errors, ordered,
                   validated, reported, abortReason, rendered, procDeclared>>

\* lines 35-42: one iteration of the for loop, or its end
OrderFor ==
    /\ pc = "for"
    /\ IF idx > Len(i_errors)
       THEN /\ pc' = "while"
            /\ idx' = 0
            /\ UNCHANGED ordered
       ELSE LET error == i_errors[idx]
                appended == /\ ~AlreadyOrdered(error, ordered)
                            /\ CanAppend(error, ordered, parents)
            IN /\ ordered' = IF appended THEN Append(ordered, error) ELSE ordered
               /\ idx' = NextIdx(idx, appended)
               /\ UNCHANGED pc
    /\ UNCHANGED <<modelVars, i_namespace, mfile, template_path, i_errors, validated,
                   reported, abortReason, ordering, rendered, procDeclared>>

\* gen_elog_hpp lines 161-173: the template is rendered into the output file.
\* Without a document the loop of line 127 never assigned template_path and
\* line 163 raises UnboundLocalError before line 164 opens the file.
Render ==
    /\ pc = "render"
    /\ IF template_path = "bound"
       THEN /\ rendered' = TRUE
            /\ pc' = "done"
            /\ UNCHANGED abortReason
       ELSE /\ Abort("unbound_template_path")
            /\ UNCHANGED rendered
    /\ UNCHANGED <<modelVars, i_namespace, mfile, template_path, orderVars,
                   validated, reported, procDeclared>>

-----------------------------------------------------------------------------
(* The run of gen_elog_hpp *)

Init ==
    /\ pc = "load"
    /\ errors = <<>>
    /\ error_lvl = EmptyDict
    /\ meta = EmptyDict
    /\ meta_data = EmptyDict
    /\ parents = EmptyDict
    /\ metadata_process = EmptyDict
    /\ i_namespace = Empty
    /\ mfile = NoDoc
    /\ template_path = "unbound"
    /\ i_errors = <<>>
    /\ ordered = <<>>
    /\ idx = 0
    /\ validated = "pending"
    /\ reported = <<>>
    /\ abortReason = "none"
    /\ ordering = "none"
    /\ rendered = FALSE
    /\ procDeclared = {}

Next ==
    \/ StartDoc
    \/ LoadError
    \/ EndDoc
    \/ EndLoad
    \/ CheckInheritance
    \/ OrderBegin
    \/ OrderWhile
    \/ OrderFor
    \/ Render

Spec == Init /\ [][Next]_vars

-----------------------------------------------------------------------------
(* check_error_inheritance and order_inherited_errors on the batches the     *)
(* loader can leave at line 154                                              *)

BatchNames == FullNames \cup {FullName(n, <<"C">>) : n \in NameSpaces}

ParentValues == BatchNames \cup {None, Empty, Undefined}

Batches == UNION {[1..n -> BatchNames] : n \in 0..MaxBatch}

\* the state at line 154 after documents whose errors either have no metadata
\* entry (no parent, no meta list) or have one with an 'inherits' key only
OrderInit ==
    /\ pc = "check"
    /\ errors \in Batches
    /\ parents \in [Range(errors) -> ParentValues]
    /\ error_lvl = [e \in Range(errors) |-> "ERR"]
    /\ meta = [e \in {x \in Range(errors) : parents[x] # None} |-> <<>>]
    /\ meta_data = EmptyDict
    /\ metadata_process = EmptyDict
    /\ i_namespace = Empty
    /\ mfile = NoDoc
    /\ template_path \in IF errors = <<>> THEN {"unbound", "bound"} ELSE {"bound"}
    /\ i_errors = <<>>
    /\ ordered = <<>>
    /\ idx = 0
    /\ validated = "pending"
    /\ reported = <<>>
    /\ abortReason = "none"
    /\ ordering = "none"
    /\ rendered = FALSE
    /\ procDeclared = {}

OrderNext ==
    \/ CheckInheritance
    \/ OrderBegin
    \/ OrderWhile
    \/ OrderFor
    \/ Render

OrderSpec == OrderInit /\ [][OrderNext]_vars

\* the interpreter runs the single thread on: a step that can be taken is taken
FairOrderSpec == OrderSpec /\ WF_vars(OrderNext)

-----------------------------------------------------------------------------
(* Properties *)

xA == FullName(<<"n", "/", "s">>, <<"A">>)
xB == FullName(<<"n", "/", "s">>, <<"B">>)
xC == FullName(<<"n", "/", "s">>, <<"C">>)

Returned == ordering = "returned"

\* the positions of e in the list s
Positions(s, e) == {i \in 1..Len(s) : s[i] = e}

\* the parent of e is a name (not None, not the empty string)
HasParent(e) == parents[e] # None /\ parents[e] # Empty

\* the scenario of the claim: C inherits B, B inherits A, declared [C, A, B]
ScenarioCAB ==
    /\ i_errors = <<xC, xA, xB>>
    /\ parents[xA] = None /\ parents[xB] = xA /\ parents[xC] = xB

\* C1: in the list order_inherited_errors returns, every error that has a
\* parent stands at a strictly greater index than an occurrence of its parent;
\* errors declared [C, A, B] with B's parent A and C's parent B give [A, B, C].
C1_ParentPrecedesChild ==
    Returned =>
       /\ \A i \in 1..Len(errors) :
             HasParent(errors[i]) =>
                \E j \in 1..(i - 1) : errors[j] = parents[errors[i]]
       /\ ScenarioCAB => errors = <<xA, xB, xC>>

C1_Witness == Returned /\ ScenarioCAB /\ errors = <<xA, xB, xC>>

\* the errors that inherit a name outside the loaded list, by position
DanglingAt(isParent(_)) ==
    {i \in 1..Len(errors) :
        isParent(parents[errors[i]]) /\ Positions(errors, parents[errors[i]]) = {}}

CheckOutcome(isParent(_)) ==
    /\ validated = "ok" => DanglingAt(isParent) = {}
    /\ validated = "failed" =>
          /\ DanglingAt(isParent) # {}
          /\ \E i \in DanglingAt(isParent) :
                /\ \A j \in DanglingAt(isParent) : i <= j
                /\ reported = <<errors[i], parents[errors[i]]>>

NotNone(v) == v # None
NotNoneNotEmpty(v) == v # None /\ v # Empty

\* C2 as stated: check_error_inheritance succeeds iff every non-null parent is
\* in the loaded error list, and reports the first violating error otherwise.
C2_NonNullParents == CheckOutcome(NotNone)

\* C2 amended: check_error_inheritance succeeds iff every parent that is
\* neither null nor the empty string is in the loaded error list; when it
\* fails the pair reported is the first such error in declaration order and
\* its parent.
C2_NonEmptyParents == CheckOutcome(NotNoneNotEmpty)

C2_Witness ==
    /\ validated = "failed"
    /\ errors = <<xA>>
    /\ reported = <<xA, Undefined>>

\* C3: the output is written only after loading ended without a fatal error,
\* validation succeeded and ordering returned; ordering starts only after a
\* successful validation; a run that ends on a missing name, an unknown type
\* or a dangling parent has neither ordered nor rendered.
C3_RenderLast ==
    /\ rendered => pc = "done" /\ validated = "ok" /\ Returned
                   /\ abortReason = "none"
    /\ ordering # "none" => validated = "ok"
    /\ pc \in {"load", "doc"} => validated = "pending" /\ ordering = "none"
    /\ validated = "failed" => pc = "abort" /\ abortReason = "dangling_parent"
    /\ abortReason # "none" => pc = "abort" /\ ~rendered
    /\ abortReason \in {"missing_name", "unknown_type", "dangling_parent",
                        "index_error", "no_yaml", "no_template"} =>
          ordering = "none"
    /\ pc = "abort" => abortReason # "none"

C3_Witness ==
    /\ rendered
    /\ Len(errors) = 2
    /\ \E e \in Range(errors) : HasParent(e)

\* C4: for a batch that check_error_inheritance accepts, the call of
\* order_inherited_errors returns.
C4_OrderTerminates == (validated = "ok") ~> Returned

\* C5: a batch with an error that names itself as its parent does not pass
\* check_error_inheritance.
C5_SelfParentRejected ==
    (\E e \in Range(errors) : parents[e] = e) => validated # "ok"

\* C6: the list order_inherited_errors returns has the length of the loaded
\* list and holds every name as often as the loaded list does.
C6_Permutation ==
    Returned =>
       /\ Len(errors) = Len(i_errors)
       /\ \A e \in Range(errors) \cup Range(i_errors) :
             Cardinality(Positions(errors, e)) = Cardinality(Positions(i_errors, e))

C6_Witness ==
    /\ Returned
    /\ Len(errors) = 3
    /\ errors # i_errors

\* C7: when no error of the batch has a parent, order_inherited_errors returns
\* the errors in the order of the input.
C7_NoParentsKeepOrder ==
    (Returned /\ \A e \in Range(i_errors) : ~HasParent(e)) => errors = i_errors

C7_Witness ==
    /\ Returned
    /\ Len(i_errors) = 3
    /\ \A e \in Range(i_errors) : parents[e] = None
    /\ errors = i_errors

\* C8: every loaded error has an entry in the severity map, the parent map
\* and the metadata-field-list map.
C8_EveryErrorHasEntries ==
    pc # "abort" =>
       \A e \in Range(errors) :
          /\ e \in DOMAIN error_lvl
          /\ e \in DOMAIN parents
          /\ e \in DOMAIN meta

\* what C9 says of the key k of the process index and its declaring error e,
\* without the membership in e's metadata-field list
ProcessEntry(k, e) ==
    /\ <<e, k>> \in procDeclared
    /\ metadata_process[k] = e \o <<".">> \o k
    /\ k \in DOMAIN meta_data

\* C9 as stated: every key k of the process index was loaded with process =
\* true by an error e, maps to "<e>.<k>", is a key of the field map and is in
\* the metadata-field list of e.
C9_InDeclaringList ==
    pc # "abort" =>
       \A k \in DOMAIN metadata_process :
          \E e \in Range(errors) :
             /\ ProcessEntry(k, e)
             /\ e \in DOMAIN meta
             /\ k \in Range(meta[e])

\* C9 amended: every key k of the process index was loaded with process =
\* true by an error e, maps to "<e>.<k>" and is a key of the field map; and k
\* is in the metadata-field list of e when the load that wrote the entry
\* ends (a later load of the same name may replace that list).
C9_InListWhenLoaded ==
    /\ [](pc # "abort" =>
            \A k \in DOMAIN metadata_process :
               \E e \in Range(errors) : ProcessEntry(k, e))
    /\ [][pc' # "abort" =>
            \A k \in DOMAIN metadata_process' :
               (k \notin DOMAIN metadata_process
                  \/ metadata_process[k] # metadata_process'[k]) =>
               \E e \in DOMAIN meta' :
                  /\ metadata_process'[k] = e \o <<".">> \o k
                  /\ k \in Range(meta'[e])]_vars

C9_Witness ==
    /\ pc = "load"
    /\ <<"K">> \in DOMAIN metadata_process
    /\ metadata_process[<<"K">>] = xB \o <<".", "K">>
    /\ errors = <<xA, xB>>
    /\ xA \in DOMAIN meta
    /\ meta[xA] = << <<"K">> >>
    /\ <<xA, <<"K">>>> \in procDeclared

\* the positions of the errors that can be emitted after the list out
Ready(errs, pars, out) ==
    {i \in 1..Len(errs) :
        /\ Positions(out, errs[i]) = {}
        /\ \/ pars[errs[i]] \in {None, Empty}
           \/ Positions(out, pars[errs[i]]) # {}}

Least(S) == CHOOSE i \in S : \A j \in S : i <= j

\* topological sort that emits the earliest declared ready error at each step
RECURSIVE KahnOrder(_, _, _)
KahnOrder(errs, pars, out) ==
    IF Ready(errs, pars, out) = {} THEN out
    ELSE KahnOrder(errs, pars, Append(out, errs[Least(Ready(errs, pars, out))]))

\* topological sort that emits, at each step, the first ready error declared
\* after the one emitted last, and the earliest declared ready one when there
\* is none
RECURSIVE RoundOrder(_, _, _, _)
RoundOrder(errs, pars, out, last) ==
    LET ready == Ready(errs, pars, out)
        later == {i \in ready : i > last}
        pick == IF later # {} THEN Least(later) ELSE Least(ready)
    IN IF ready = {} THEN out
       ELSE RoundOrder(errs, pars, Append(out, errs[pick]), pick)

\* C10 as stated: with inheritance, the list returned is the one of the sort
\* that emits the earliest declared ready error at each step.
C10_EqualsKahn ==
    (Returned /\ HasInheritance(i_errors, parents)) =>
       errors = KahnOrder(i_errors, parents, <<>>)

\* C10 amended: with inheritance, the list returned is the one of the sort
\* that emits at each step the first ready error declared after the error
\* emitted last, going back to the start of the declaration order when no
\* ready error is left after it.
C10_EqualsRoundOrder ==
    (Returned /\ HasInheritance(i_errors, parents)) =>
       errors = RoundOrder(i_errors, parents, <<>>, 0)

C10_Witness ==
    /\ Returned
    /\ HasInheritance(i_errors, parents)
    /\ errors # KahnOrder(i_errors, parents, <<>>)
    /\ errors = RoundOrder(i_errors, parents, <<>>, 0)

====
